---- MODULE Spec2Model ----
(***************************************************************************)
(* A model of cognates.py: the segmenter (tokenize), the alignment         *)
(* synthesizer (alignment), the cognate resolver (step 2), the compact     *)
(* cognate ID assignment (step 3), the alignment validation (step 5) and   *)
(* the step range that gates the stages of __main__.                       *)
(*                                                                         *)
(* Strings are sequences of characters; a character is a one-symbol        *)
(* string.  Characters outside ASCII are written by their code point,      *)
(* "U+02C8" for the IPA primary stress mark.  A missing table cell (NaN)   *)
(* is the value NaN.                                                       *)
(***************************************************************************)
EXTENDS Integers, Sequences, FiniteSets, TLC

VARIABLES
    \* step 0, one row of the word list
    IPA,            \* the row's transcription (after line 163)
    oldALIGNMENT,   \* the row's ALIGNMENT cell as read
    TOKENS,         \* the TOKENS cell written by line 164
    ALIGNMENT,      \* the ALIGNMENT cell written by line 166
    tpc,            \* "read" | "tokens" | "aligned" | "idle"
    \* step 2, the cognate resolution loop
    coding,         \* whether args.coding names a manual coding file
    cognates,       \* the working table, sorted by DOCULECT_ID
    autocognates,   \* the automatic table, sorted by DOCULECT_ID
    reset,          \* args.reset
    done2,          \* how many rows of the working table the loop has processed
    LONG_COGID,     \* the LONG_COGID column of the working table
    pairs,          \* the set of cross-meaning pairs
    chosen,         \* per row, the branch and the row that gave the representative
    \* step 3, the compact cognate IDs
    within_meaning, \* args.within_meaning
    merged,         \* the rows read from tap-cognates-mg.tsv
    COG_IDs,        \* the list of keys seen
    scanned3,       \* how many rows the first loop has passed
    COGID,          \* the COGID column, None until it is assigned
    \* step 5, the alignment validation
    alignments,     \* the rows read from tap-aligned.tsv
    hasAUTO,        \* whether the table has an AUTO_ALIGNMENT column
    asRead,         \* the ALIGNMENT column as it was read
    groupsDone,     \* the COGIDs whose group the loop has passed
    replaced,       \* the rows set_value was called on
    \* __main__, the step range
    start,          \* args.start
    end,            \* args.end
    stage,          \* the step whose guard is evaluated next
    phase,          \* "guard" | "compute" | "write" | "exit"
    ran,            \* the steps entered, in order
    computed,       \* the steps whose computation succeeded
    written,        \* the steps whose output artifact exists
    failed          \* the steps that raised

segVars == <<IPA, oldALIGNMENT, TOKENS, ALIGNMENT, tpc>>
resVars == <<coding, cognates, autocognates, reset, done2, LONG_COGID, pairs, chosen>>

asgVars == <<within_meaning, merged, COG_IDs, scanned3, COGID>>
valVars == <<alignments, hasAUTO, asRead, groupsDone, replaced>>
mainVars == <<start, end, stage, phase, ran, computed, written, failed>>

vars == <<segVars, resVars, asgVars, valVars, mainVars>>

\* a missing cell; no string of characters
NaN == <<"NaN">>
\* Python's None
None == <<>>

-----------------------------------------------------------------------------
(* Bounds *)

\* longest transcription drawn, in symbols
MaxLen == 3
\* most tokens in a pre-existing alignment string
MaxAlign == 3
\* most rows of the working table and of the automatic table
MaxRows == 2
\* most rows of the table step 3 reads
MaxMerged == 3
\* most rows of the table step 5 reads
MaxAligned == 4

-----------------------------------------------------------------------------
(* Generic sequence helpers *)

RECURSIVE SeqsUpTo(_, _)
SeqsUpTo(S, n) ==
    IF n = 0 THEN {<<>>}
    ELSE LET shorter == SeqsUpTo(S, n - 1)
         IN  shorter \cup {Append(s, x) : s \in {t \in shorter : Len(t) = n - 1}, x \in S}

-----------------------------------------------------------------------------
(* tokenize *)

\* the default substitutions table
substitutions ==
    [c \in {"U+00E4", "U+03B5", "U+00E9", "U+00E1", "U+00ED", "U+0241",
            "U+02C8", ":", "U+0261"} |->
        CASE c = "U+00E4" -> "a"
          [] c = "U+03B5" -> "U+025B"
          [] c = "U+00E9" -> "e"
          [] c = "U+00E1" -> "a"
          [] c = "U+00ED" -> "i"
          [] c = "U+0241" -> "U+0294"
          [] c = "U+02C8" -> "'"
          [] c = ":"      -> "U+02D0"
          [] c = "U+0261" -> "g"]

\* glyphs of clpadata["consonants"] and clpadata["vowels"] that the model uses
consonants == {"t", "m", "p", "g", "U+0294"}
vowels == {"a", "i", "e", "U+025B"}

\* "if segment: yield segment"
Flush(out, segment) == IF segment # <<>> THEN Append(out, segment) ELSE out

\* the body of "for symbol in form", then the final "yield segment"
RECURSIVE scan(_, _, _, _)
scan(rest, segment, stress, out) ==
    IF rest = <<>> THEN Append(out, segment)
    ELSE
      LET raw == Head(rest)
          symbol == IF raw \in DOMAIN substitutions THEN substitutions[raw] ELSE raw
      IN  CASE symbol = "'" ->
                 scan(Tail(rest), <<>>, TRUE, Flush(out, segment))
            [] symbol \in {"_", "-"} ->
                 scan(Tail(rest), <<>>, stress, Append(Flush(out, segment), <<symbol>>))
            [] symbol = "." ->
                 scan(Tail(rest), <<>>, stress, Flush(out, segment))
            [] symbol \in consonants ->
                 scan(Tail(rest), <<symbol>>, FALSE, Flush(out, segment))
            [] symbol \in vowels ->
                 scan(Tail(rest),
                      IF stress THEN <<"'", symbol>> ELSE <<symbol>>,
                      stress, Flush(out, segment))
            [] OTHER ->
                 scan(Tail(rest), Append(segment, symbol), stress, out)

\* tokenize(form): the list of segments the generator yields
tokenize(form) ==
    scan(IF Head(form) = "*" THEN Tail(form) ELSE form, <<>>, FALSE, <<>>)

-----------------------------------------------------------------------------
(* str.join, str.split, str.replace *)

\* " ".join(tokens)
RECURSIVE join(_)
join(tokens) ==
    IF tokens = <<>> THEN <<>>
    ELSE IF Len(tokens) = 1 THEN Head(tokens)
    ELSE Head(tokens) \o <<" ">> \o join(Tail(tokens))

whitespace == {" ", "\n", "\t"}

\* s.split(): the maximal runs of non-whitespace characters
RECURSIVE splitFrom(_, _, _)
splitFrom(s, cur, out) ==
    IF s = <<>> THEN Flush(out, cur)
    ELSE IF Head(s) \in whitespace THEN splitFrom(Tail(s), <<>>, Flush(out, cur))
    ELSE splitFrom(Tail(s), Append(cur, Head(s)), out)

split(s) == splitFrom(s, <<>>, <<>>)

\* s.replace(old, new) for a one-character old
replace(s, old, new) == [k \in 1..Len(s) |-> IF s[k] = old THEN new ELSE s[k]]

\* [x for x in tokens if x != "-"]
RECURSIVE dropGaps(_)
dropGaps(tokens) ==
    IF tokens = <<>> THEN <<>>
    ELSE IF Head(tokens) = <<"-">> THEN dropGaps(Tail(tokens))
    ELSE <<Head(tokens)>> \o dropGaps(Tail(tokens))

-----------------------------------------------------------------------------
(* alignment *)

\* what alignment(data) yields for one (IPA, ALIGNMENT) pair; the cell is
\* NaN-free here: str(form) of a present form is the form, and the ALIGNMENT
\* column is text ("" or "nan" when blank)
alignment(form0, alignment0) ==
    LET form == replace(replace(form0, "\n", ";"), " ", "_")
        al == replace(alignment0, "\n", ";")
    IN  IF al \in {<<>>, <<"n", "a", "n">>}
        THEN join(tokenize(form))
        ELSE IF tokenize(form) # dropGaps(split(al))
             THEN join(tokenize(form))
             ELSE al

-----------------------------------------------------------------------------
(* Step 0 on one row *)

\* symbols a drawn transcription is made of: reconstruction marker, stress
\* marker, boundary markers, syllable marker, consonant, vowel, diacritic
FormSymbols == {"*", "U+02C8", "_", "-", ".", "t", "a", "U+02B0"}

\* the transcriptions of the specification's scenarios A and B
ScenarioForms == {<<"p", "a", "i">>, <<"U+02C8", "t", "a", "m", "a">>}

Forms == (SeqsUpTo(FormSymbols, MaxLen) \ {<<>>}) \cup ScenarioForms

AlignTokens == {<<"t">>, <<"a">>, <<"-">>}

Alignments ==
    {join(ts) : ts \in SeqsUpTo(AlignTokens, MaxAlign)} \cup {<<"n", "a", "n">>}

SegInit ==
    /\ IPA \in Forms
    /\ oldALIGNMENT \in Alignments
    /\ TOKENS = NaN
    /\ ALIGNMENT = NaN
    /\ tpc = "read"

SegIdle ==
    /\ IPA = <<>>
    /\ oldALIGNMENT = <<>>
    /\ TOKENS = NaN
    /\ ALIGNMENT = NaN
    /\ tpc = "idle"

\* line 164: data["TOKENS"] = " ".join(tokenize(x))
Stage0Tokens ==
    /\ tpc = "read"
    /\ TOKENS' = join(tokenize(IPA))
    /\ tpc' = "tokens"
    /\ UNCHANGED <<IPA, oldALIGNMENT, ALIGNMENT>>
    /\ UNCHANGED <<resVars, asgVars, valVars, mainVars>>

\* line 166: data["ALIGNMENT"] = list(alignment(data))
Stage0Alignment ==
    /\ tpc = "tokens"
    /\ ALIGNMENT' = alignment(IPA, oldALIGNMENT)
    /\ tpc' = "aligned"
    /\ UNCHANGED <<IPA, oldALIGNMENT, TOKENS>>
    /\ UNCHANGED <<resVars, asgVars, valVars, mainVars>>

SegNext == Stage0Tokens \/ Stage0Alignment


-----------------------------------------------------------------------------
(* Claims about the segmenter and the alignment synthesizer *)

\* C1: for every Form, the alignment string produced by alignment(), split on
\* whitespace with every gap symbol "-" removed, is exactly
\* tokenize(transcription).
C1_AlignmentRoundTrip ==
    tpc = "aligned" => dropGaps(split(ALIGNMENT)) = tokenize(IPA)

\* the tokens written to the TOKENS cell
TokensWritten == split(TOKENS)

\* the places of a transcription where a stress marker stands
StressMarkers(form) == {k \in 1..Len(form) : form[k] \in {"U+02C8", "'"}}

\* the tokens that carry the stress tag
StressedTokens(tokens) ==
    {k \in 1..Len(tokens) : tokens[k] # <<>> /\ Head(tokens[k]) = "'"}

\* C8: when a stress marker precedes a consonant that is followed by a vowel,
\* the first vowel after the stress marker carries the stress tag; the tokens
\* of the transcription U+02C8 t a m a are t, 'a, m, a.
C8_StressOnFirstVowelAfterMarker ==
    tpc \in {"tokens", "aligned"} =>
        /\ \A k \in StressMarkers(IPA) :
               (k + 2 <= Len(IPA) /\ IPA[k + 1] \in consonants /\ IPA[k + 2] \in vowels)
               => \E j \in 1..Len(TokensWritten) : TokensWritten[j] = <<"'", IPA[k + 2]>>
        /\ IPA = <<"U+02C8", "t", "a", "m", "a">>
               => TokensWritten = <<<<"t">>, <<"'", "a">>, <<"m">>, <<"a">>>>

\* C9: scanning a vowel clears the pending stress, so each stress marker
\* causes at most one vowel segment to carry the stress tag.
C9_OneStressedVowelPerMarker ==
    tpc \in {"tokens", "aligned"} =>
        Cardinality(StressedTokens(TokensWritten)) <= Cardinality(StressMarkers(IPA))

-----------------------------------------------------------------------------
(* Step 2: the cognate resolution loop *)

d1 == <<"d", "1">>
d2 == <<"d", "2">>
c1 == <<"c", "1">>
c2 == <<"c", "2">>
nan == <<"n", "a", "n">>

\* the language name of a language ID
DoculectOf(id) == <<"L">> \o Tail(id)

\* the forms the tables are drawn from: one form, one that differs from it in
\* the language alone, one that differs in the concept and the transcription
ResForms ==
    {[DOCULECT_ID |-> d1, CONCEPT |-> c1, IPA |-> <<"x">>],
     [DOCULECT_ID |-> d2, CONCEPT |-> c1, IPA |-> <<"x">>],
     [DOCULECT_ID |-> d1, CONCEPT |-> c2, IPA |-> <<"y">>]}

\* the COGNATE_SET cells drawn: missing, the text "nan", a label
Labels == {NaN, nan, <<"1">>}
\* the AUTO_COGID cells lex.cluster writes: a cluster number in every row
AutoLabels == {<<"1">>, <<"2">>}

Row(f, label, auto) ==
    [DOCULECT_ID |-> f.DOCULECT_ID, DOCULECT |-> DoculectOf(f.DOCULECT_ID),
     CONCEPT |-> f.CONCEPT, IPA |-> f.IPA,
     COGNATE_SET |-> label, AUTO_COGID |-> auto]

\* the order sort_values(by="DOCULECT_ID") leaves a table in
SortedByDoculectID(table) ==
    \A j, k \in 1..Len(table) :
        j < k => ~(table[j].DOCULECT_ID = d2 /\ table[k].DOCULECT_ID = d1)

TablesOf(rows, n) == {t \in SeqsUpTo(rows, n) : SortedByDoculectID(t)}

\* the lists of directives drawn for --reset: none, a label, a language ID,
\* a concept
ResetChoices == {{}, {<<"1">>}, {d2}, {c2}}

\* pandas.isnull
isnull(x) == x = NaN

\* a comparison under which two missing cells are equal
eq_plain(a, b) == a = b

\* the elementwise == of a column and a value: a missing cell equals nothing
eq(a, b) == ~isnull(a) /\ ~isnull(b) /\ a = b

\* str(x)
str(x) == IF isnull(x) THEN nan ELSE x

\* table[condition]: the places of the rows that satisfy it, in table order
Where(table, P(_)) == {k \in 1..Len(table) : P(table[k])}

\* .iloc[0] of a non-empty selection
iloc0(S) == CHOOSE k \in S : \A j \in S : k <= j

\* lines 224-229
IsReset(row, directives) ==
    \/ row.COGNATE_SET = nan
    \/ row.COGNATE_SET = <<>>
    \/ isnull(row.COGNATE_SET)
    \/ str(row.COGNATE_SET) \in directives
    \/ row.DOCULECT_ID \in directives
    \/ row.CONCEPT \in directives

\* lines 231-234: the rows of the automatic table a row matches
AutoMatches(auto, row) ==
    Where(auto, LAMBDA a : /\ eq(a.DOCULECT, row.DOCULECT)
                           /\ eq(a.IPA, row.IPA)
                           /\ eq(a.CONCEPT, row.CONCEPT))

\* lines 240-242 and 249-250: the rows of the working table with a row's label
LabelPool(table, row) ==
    Where(table, LAMBDA r : eq(r.COGNATE_SET, row.COGNATE_SET))

\* the matched rows alone, without their cluster
AutoPool_matchedOnly(auto, row) == AutoMatches(auto, row)

\* lines 236-238: the rows of the automatic table with the matched row's label
AutoPool(auto, row) ==
    LET cogid == auto[iloc0(AutoMatches(auto, row))].AUTO_COGID
    IN  Where(auto, LAMBDA a : eq(a.AUTO_COGID, cogid))

\* the automatic table searched for every row, reset or not
Representatives_autoFirst(table, auto, row, directives) ==
    IF AutoMatches(auto, row) # {}
    THEN [from |-> "autocognates", rows |-> AutoPool(auto, row)]
    ELSE [from |-> "cognates", rows |-> LabelPool(table, row)]

\* lines 230-250: the table and the rows "representatives" selects
Representatives(table, auto, row, directives) ==
    IF IsReset(row, directives)
    THEN IF AutoMatches(auto, row) # {}
         THEN [from |-> "autocognates", rows |-> AutoPool(auto, row)]
         ELSE [from |-> "cognates", rows |-> LabelPool(table, row)]
    ELSE [from |-> "cognates", rows |-> LabelPool(table, row)]

\* lines 251-254: where the representative is taken from
Choice(table, auto, k, directives) ==
    LET reps == Representatives(table, auto, table[k], directives)
    IN  IF reps.rows # {}
        THEN [from |-> reps.from, row |-> iloc0(reps.rows)]
        ELSE [from |-> "row", row |-> k]

\* the row a choice names
ChoiceRow(table, auto, ch) ==
    IF ch.from = "autocognates" THEN auto[ch.row] ELSE table[ch.row]

\* lines 263-265
Triple(r) == <<r.DOCULECT_ID, r.CONCEPT, r.IPA>>

ResInit ==
    /\ coding \in BOOLEAN
    /\ reset \in ResetChoices
    /\ IF coding
       THEN /\ cognates \in TablesOf({Row(f, l, NaN) : f \in ResForms, l \in Labels},
                                     MaxRows) \ {<<>>}
            /\ autocognates \in
                 TablesOf({Row(f, NaN, a) : f \in ResForms, a \in AutoLabels}, MaxRows)
       ELSE /\ cognates \in
                 TablesOf({Row(f, l, a) : f \in ResForms, l \in Labels, a \in AutoLabels},
                          MaxRows) \ {<<>>}
            /\ autocognates = cognates
    /\ done2 = 0
    /\ LONG_COGID = [k \in 1..Len(cognates) |-> None]
    /\ pairs = {}
    /\ chosen = [k \in 1..Len(cognates) |-> None]

ResIdle ==
    /\ coding = FALSE
    /\ cognates = <<>>
    /\ autocognates = <<>>
    /\ reset = {}
    /\ done2 = 0
    /\ LONG_COGID = <<>>
    /\ pairs = {}
    /\ chosen = <<>>

\* lines 223-265: one pass of the loop body, on the next row
ResolveRow ==
    /\ done2 < Len(cognates)
    /\ LET i == done2 + 1
           row == cognates[i]
           ch == Choice(cognates, autocognates, i, reset)
           representative == ChoiceRow(cognates, autocognates, ch)
       IN  /\ pairs' = IF row.CONCEPT # representative.CONCEPT
                       THEN pairs \cup {<<row.CONCEPT, representative.CONCEPT>>}
                       ELSE pairs
           /\ LONG_COGID' = [LONG_COGID EXCEPT ![i] = Triple(representative)]
           /\ chosen' = [chosen EXCEPT ![i] = ch]
           /\ done2' = i
    /\ UNCHANGED <<coding, cognates, autocognates, reset>>
    /\ UNCHANGED <<segVars, asgVars, valVars, mainVars>>

ResNext == ResolveRow

-----------------------------------------------------------------------------
(* Claims about the cognate resolver *)

\* the reset flag as the claims word it: the label is empty or missing, or the
\* label, the language ID or the concept is a reset directive
ClaimResetFlag(row) ==
    \/ row.COGNATE_SET \in {NaN, nan, <<>>}
    \/ row.COGNATE_SET \in reset
    \/ row.DOCULECT_ID \in reset
    \/ row.CONCEPT \in reset

\* the rows of the automatic table with a row's (doculect, transcription, concept)
ClaimMatches(row) ==
    {m \in 1..Len(autocognates) :
        /\ autocognates[m].DOCULECT = row.DOCULECT
        /\ autocognates[m].IPA = row.IPA
        /\ autocognates[m].CONCEPT = row.CONCEPT}

ClaimTriple(r) == <<r.DOCULECT_ID, r.CONCEPT, r.IPA>>

\* the first row, in automatic-table order, with the automatic label of the
\* first row a row matches
ClaimGrounding(row) ==
    LET m == CHOOSE m \in ClaimMatches(row) : \A j \in ClaimMatches(row) : m <= j
    IN  CHOOSE p \in 1..Len(autocognates) :
            /\ autocognates[p].AUTO_COGID = autocognates[m].AUTO_COGID
            /\ \A q \in 1..(p - 1) :
                   autocognates[q].AUTO_COGID # autocognates[m].AUTO_COGID

\* C2: a row whose reset flag is true and that matches a row of the automatic
\* table gets as LONG_COGID the (doculect ID, concept, transcription) of the
\* first row, in automatic-table order, among the automatic rows sharing the
\* matched row's automatic label; so reset rows matched to the same automatic
\* label get the same LONG_COGID.
C2_ResetRowGroundedInAutomaticTable ==
    /\ \A r \in 1..done2 :
           (ClaimResetFlag(cognates[r]) /\ ClaimMatches(cognates[r]) # {}) =>
               LONG_COGID[r] = ClaimTriple(autocognates[ClaimGrounding(cognates[r])])
    /\ \A r, s \in 1..done2 :
           ( /\ ClaimResetFlag(cognates[r]) /\ ClaimMatches(cognates[r]) # {}
             /\ ClaimResetFlag(cognates[s]) /\ ClaimMatches(cognates[s]) # {}
             /\ autocognates[ClaimGrounding(cognates[r])].AUTO_COGID
                  = autocognates[ClaimGrounding(cognates[s])].AUTO_COGID )
           => LONG_COGID[r] = LONG_COGID[s]

\* a manual row, reset by a directive, grounded in an automatic cluster whose
\* first row is another form
C2_Witness ==
    /\ coding
    /\ done2 = Len(cognates)
    /\ \E r \in 1..done2 :
           /\ ~isnull(cognates[r].COGNATE_SET)
           /\ ClaimResetFlag(cognates[r])
           /\ ClaimMatches(cognates[r]) # {}
           /\ LONG_COGID[r] # ClaimTriple(cognates[r])

\* whether a row's representative was taken from a row of the working table
FromWorkingTable(r) ==
    \/ chosen[r].from \in {"cognates", "row"}
    \/ chosen[r].from = "autocognates" /\ ~coding

ClaimLabelPool(row) ==
    {k \in 1..Len(cognates) :
        row.COGNATE_SET # NaN /\ cognates[k].COGNATE_SET = row.COGNATE_SET}

\* C4: after resolution every working-table row carries one non-null
\* LONG_COGID and no row is removed; a reset row with no matching
\* automatic-table row gets the triple of the first working-table row sharing
\* its own label, and its own triple when that pool is empty; the rows after
\* it are processed in their turn.
C4_TotalityAndFallback ==
    /\ DOMAIN LONG_COGID = 1..Len(cognates)
    /\ \A r \in 1..done2 :
           /\ LONG_COGID[r] # None
           /\ \E row \in {cognates[k] : k \in 1..Len(cognates)}
                         \cup {autocognates[k] : k \in 1..Len(autocognates)} :
                  LONG_COGID[r] = ClaimTriple(row)
           /\ (ClaimResetFlag(cognates[r]) /\ ClaimMatches(cognates[r]) = {}) =>
                  IF ClaimLabelPool(cognates[r]) # {}
                  THEN \E p \in ClaimLabelPool(cognates[r]) :
                           /\ \A q \in ClaimLabelPool(cognates[r]) : p <= q
                           /\ LONG_COGID[r] = ClaimTriple(cognates[p])
                  ELSE LONG_COGID[r] = ClaimTriple(cognates[r])

\* a reset row without a label and without an automatic match was given its
\* own triple, and the row after it, without a label either, was then given
\* another
C4_Witness ==
    \E r \in 1..(done2 - 1) :
        /\ isnull(cognates[r].COGNATE_SET)
        /\ isnull(cognates[r + 1].COGNATE_SET)
        /\ ClaimMatches(cognates[r]) = {}
        /\ LONG_COGID[r] = ClaimTriple(cognates[r])
        /\ LONG_COGID[r + 1] # LONG_COGID[r]

-----------------------------------------------------------------------------
(* Step 3: the compact cognate IDs *)

\* str() of a LONG_COGID tuple, as to_csv writes it and read_csv reads it back
TupleText(t) ==
    <<"(", "'">> \o t[1] \o <<"'", ",", " ", "'">> \o t[2]
                 \o <<"'", ",", " ", "'">> \o t[3] \o <<"'", ")">>

\* a row's key when the mode ignores the meaning
Key_withoutMeaning(row, scoped) == row.LONG_COGID

\* lines 289-290 and 297: the key of a row
Key(row, scoped) ==
    IF scoped THEN <<row.LONG_COGID, row.CONCEPT_ID>> ELSE row.LONG_COGID

\* x in list
In(x, list) == \E k \in 1..Len(list) : list[k] = x

\* list.index(x), counted from 0
index(list, x) == (CHOOSE k \in 1..Len(list) : list[k] = x /\ \A j \in 1..(k - 1) : list[j] # x) - 1

MergedRows ==
    [LONG_COGID : {TupleText(Triple(f)) : f \in ResForms},
     CONCEPT_ID : {<<"1">>, <<"2">>}]

AsgInit ==
    /\ within_meaning \in BOOLEAN
    /\ merged \in SeqsUpTo(MergedRows, MaxMerged) \ {<<>>}
    /\ COG_IDs = <<>>
    /\ scanned3 = 0
    /\ COGID = None

AsgIdle ==
    /\ within_meaning = FALSE
    /\ merged = <<>>
    /\ COG_IDs = <<>>
    /\ scanned3 = 0
    /\ COGID = None

\* lines 289-292 and 297-299: one pass of the loop that collects the keys
CollectKey ==
    /\ scanned3 < Len(merged)
    /\ LET i == Key(merged[scanned3 + 1], within_meaning)
       IN  COG_IDs' = IF ~In(i, COG_IDs) THEN Append(COG_IDs, i) ELSE COG_IDs
    /\ scanned3' = scanned3 + 1
    /\ UNCHANGED <<within_meaning, merged, COGID>>
    /\ UNCHANGED <<segVars, resVars, valVars, mainVars>>

\* lines 293-295 and 300-302: the COGID column
AssignCOGID ==
    /\ scanned3 = Len(merged)
    /\ COGID = None
    /\ COGID' = [k \in 1..Len(merged) |->
                    index(COG_IDs, Key(merged[k], within_meaning)) + 1]
    /\ UNCHANGED <<within_meaning, merged, COG_IDs, scanned3>>
    /\ UNCHANGED <<segVars, resVars, valVars, mainVars>>

AsgNext == CollectKey \/ AssignCOGID

-----------------------------------------------------------------------------
(* Claims about the compact cognate IDs *)

\* the identity key of a row as the claim words it
ClaimKey(k) ==
    IF within_meaning
    THEN <<merged[k].LONG_COGID, merged[k].CONCEPT_ID>>
    ELSE <<merged[k].LONG_COGID>>

\* the first row that carries an ID
FirstRowWith(id) ==
    CHOOSE k \in 1..Len(merged) : COGID[k] = id /\ \A j \in 1..(k - 1) : COGID[j] # id

\* C5: in both modes, two rows have the same COGID iff their keys are equal,
\* the IDs assigned are exactly 1..K with K the number of distinct keys, and
\* the first row with ID k+1 comes after the first row with ID k.
C5_CompactIDBijection ==
    COGID # None =>
        LET K == Cardinality({ClaimKey(k) : k \in 1..Len(merged)})
        IN  /\ DOMAIN COGID = 1..Len(merged)
            /\ \A a, b \in 1..Len(merged) :
                   (COGID[a] = COGID[b]) <=> (ClaimKey(a) = ClaimKey(b))
            /\ {COGID[k] : k \in 1..Len(merged)} = 1..K
            /\ \A id \in 1..(K - 1) : FirstRowWith(id) < FirstRowWith(id + 1)

\* scenario E: two rows share a LONG_COGID across two concepts; the scoped mode
\* gives them two IDs, and a third row repeats the first key
C5_Witness ==
    /\ COGID # None
    /\ within_meaning
    /\ \E a, b, c \in 1..Len(merged) :
           /\ a < b /\ b < c
           /\ merged[a].LONG_COGID = merged[b].LONG_COGID
           /\ merged[a].CONCEPT_ID # merged[b].CONCEPT_ID
           /\ merged[c] = merged[a]
           /\ COGID[a] = 1 /\ COGID[b] = 2 /\ COGID[c] = 1

-----------------------------------------------------------------------------
(* Step 5: the alignment validation *)

\* the value that stands for None among the token counts: no count is negative
NoCount == 0 - 1

\* the set of token counts that disregards the rows without an alignment
is_aligned_withoutMissing(table, class) ==
    {Len(split(table[i].ALIGNMENT)) : i \in {j \in class : ~isnull(table[j].ALIGNMENT)}}

\* lines 325-328: the set of token counts of a group
is_aligned(table, class) ==
    {IF isnull(table[i].ALIGNMENT) THEN NoCount ELSE Len(split(table[i].ALIGNMENT)) :
        i \in class}

\* line 333: alignments.loc[i].get('AUTO_ALIGNMENT', '-'); the default is
\* returned when the row has no such column, a missing cell is returned as it is
get_AUTO_ALIGNMENT(row, columnExists) ==
    IF columnExists THEN row.AUTO_ALIGNMENT ELSE <<"-">>

\* the rows of a group
Class(table, cogid) == {i \in 1..Len(table) : table[i].COGID = cogid}

\* the keys groupby("COGID") iterates over
Groups(table) == {table[i].COGID : i \in 1..Len(table)}

AlignedRows(columnExists) ==
    [COGID : {1, 2},
     ALIGNMENT : {NaN, <<"a">>, <<"a", " ", "-">>},
     AUTO_ALIGNMENT : IF columnExists THEN {NaN, <<"-", " ", "a">>} ELSE {NaN}]

ValInit ==
    /\ hasAUTO \in BOOLEAN
    /\ alignments \in SeqsUpTo(AlignedRows(hasAUTO), MaxAligned) \ {<<>>}
    /\ asRead = [i \in 1..Len(alignments) |-> alignments[i].ALIGNMENT]
    /\ groupsDone = {}
    /\ replaced = {}

ValIdle ==
    /\ hasAUTO = FALSE
    /\ alignments = <<>>
    /\ asRead = <<>>
    /\ groupsDone = {}
    /\ replaced = {}

\* lines 324-333: one pass of the loop over the groups, in the order of COGID
ValidateGroup ==
    /\ Groups(alignments) \ groupsDone # {}
    /\ LET cogid == CHOOSE g \in Groups(alignments) \ groupsDone :
                        \A h \in Groups(alignments) \ groupsDone : g <= h
           cognate_class == Class(alignments, cogid)
       IN  /\ IF Cardinality(is_aligned(alignments, cognate_class)) # 1
              THEN /\ alignments' =
                        [i \in 1..Len(alignments) |->
                            IF i \in cognate_class
                            THEN [alignments[i] EXCEPT !.ALIGNMENT =
                                     get_AUTO_ALIGNMENT(alignments[i], hasAUTO)]
                            ELSE alignments[i]]
                   /\ replaced' = replaced \cup cognate_class
              ELSE UNCHANGED <<alignments, replaced>>
           /\ groupsDone' = groupsDone \cup {cogid}
    /\ UNCHANGED <<hasAUTO, asRead>>
    /\ UNCHANGED <<segVars, resVars, asgVars, mainVars>>

ValNext == ValidateGroup

-----------------------------------------------------------------------------
(* Claims about the alignment validation *)

\* the token count of an alignment; a missing alignment has the one count
\* "unknown", written -1
ClaimCount(a) == IF a = NaN THEN 0 - 1 ELSE Len(split(a))

ClaimGroup(g) == {i \in 1..Len(alignments) : alignments[i].COGID = g}

\* C6: after validation, for every COGID group, either no row's alignment in
\* the group was changed and all its rows have the same token count (a missing
\* alignment counting as one value), or every row's alignment in the group was
\* replaced; a group whose token counts agree is left untouched.
C6_GroupKeptUniformOrReplaced ==
    \A g \in groupsDone :
        LET counts == {ClaimCount(asRead[i]) : i \in ClaimGroup(g)}
        IN  /\ \/ /\ \A i \in ClaimGroup(g) :
                         i \notin replaced /\ alignments[i].ALIGNMENT = asRead[i]
                  /\ Cardinality(counts) = 1
               \/ \A i \in ClaimGroup(g) : i \in replaced
            /\ Cardinality(counts) = 1 =>
                   \A i \in ClaimGroup(g) :
                       i \notin replaced /\ alignments[i].ALIGNMENT = asRead[i]
            /\ \A i, j \in ClaimGroup(g) \ replaced :
                   ClaimCount(alignments[i].ALIGNMENT) = ClaimCount(alignments[j].ALIGNMENT)

\* scenario D: one group with alignments of two token counts was replaced,
\* another with two members of one token count was kept
C6_Witness ==
    /\ Groups(alignments) = groupsDone
    /\ \E g, h \in groupsDone :
           /\ Cardinality(ClaimGroup(g)) = 2
           /\ ClaimGroup(g) \subseteq replaced
           /\ Cardinality(ClaimGroup(h)) = 2
           /\ ClaimGroup(h) \cap replaced = {}
           /\ \A i \in ClaimGroup(h) : asRead[i] # NaN

\* C7: in a group found inconsistent, each row's alignment becomes the row's
\* own AUTO_ALIGNMENT value when the row has one, and the single gap symbol
\* "-" when it has none, also when the column exists and the row's cell in it
\* is missing.
C7_FallbackValueOrGap ==
    \A i \in replaced :
        alignments[i].ALIGNMENT =
            IF hasAUTO /\ alignments[i].AUTO_ALIGNMENT # NaN
            THEN alignments[i].AUTO_ALIGNMENT
            ELSE <<"-">>

-----------------------------------------------------------------------------
(* __main__: the steps and the step range *)

\* the last step
LastStep == 5

\* the values drawn for --start and --end
RangeValues == (0 - 1)..(LastStep + 1)

MainInit ==
    /\ start \in RangeValues
    /\ end \in RangeValues
    /\ stage = 0
    /\ phase = "guard"
    /\ ran = <<>>
    /\ computed = {}
    /\ written = {}
    /\ failed = {}

MainIdle ==
    /\ start = 0
    /\ end = 0
    /\ stage = LastStep + 1
    /\ phase = "exit"
    /\ ran = <<>>
    /\ computed = {}
    /\ written = {}
    /\ failed = {}

\* "if args.start <= k <= args.end:" is false: the step is passed over
SkipStep ==
    /\ phase = "guard"
    /\ stage <= LastStep
    /\ ~(start <= stage /\ stage <= end)
    /\ stage' = stage + 1
    /\ UNCHANGED <<start, end, phase, ran, computed, written, failed>>
    /\ UNCHANGED <<segVars, resVars, asgVars, valVars>>

\* "if args.start <= k <= args.end:" is true: the step's body begins
EnterStep ==
    /\ phase = "guard"
    /\ stage <= LastStep
    /\ start <= stage /\ stage <= end
    /\ phase' = "compute"
    /\ ran' = Append(ran, stage)
    /\ UNCHANGED <<start, end, stage, computed, written, failed>>
    /\ UNCHANGED <<segVars, resVars, asgVars, valVars>>

\* the statements of a step before its output call run to their end
ComputeStep ==
    /\ phase = "compute"
    /\ phase' = "write"
    /\ computed' = computed \cup {stage}
    /\ UNCHANGED <<start, end, stage, ran, written, failed>>
    /\ UNCHANGED <<segVars, resVars, asgVars, valVars>>

\* a raised exception is swallowed and the next step is tried
RaiseInStep_swallowed ==
    /\ phase = "compute"
    /\ phase' = "guard"
    /\ stage' = stage + 1
    /\ failed' = failed \cup {stage}
    /\ UNCHANGED <<start, end, ran, computed, written>>
    /\ UNCHANGED <<segVars, resVars, asgVars, valVars>>

\* a statement of a step before its output call raises (a missing input file,
\* a missing column): nothing catches it and the process ends
RaiseInStep ==
    /\ phase = "compute"
    /\ phase' = "exit"
    /\ failed' = failed \cup {stage}
    /\ UNCHANGED <<start, end, stage, ran, computed, written>>
    /\ UNCHANGED <<segVars, resVars, asgVars, valVars>>

\* the output call that ends a step: to_csv at lines 177, 268, 303 and 335,
\* lex.output at line 192 (with the attribute read of line 194 after it),
\* alm.output at line 315
WriteArtifact ==
    /\ phase = "write"
    /\ written' = written \cup {stage}
    /\ phase' = "guard"
    /\ stage' = stage + 1
    /\ UNCHANGED <<start, end, ran, computed, failed>>
    /\ UNCHANGED <<segVars, resVars, asgVars, valVars>>

\* the end of the script
Exit ==
    /\ phase = "guard"
    /\ stage = LastStep + 1
    /\ phase' = "exit"
    /\ UNCHANGED <<start, end, stage, ran, computed, written, failed>>
    /\ UNCHANGED <<segVars, resVars, asgVars, valVars>>

Next == SkipStep \/ EnterStep \/ ComputeStep \/ RaiseInStep \/ WriteArtifact \/ Exit

-----------------------------------------------------------------------------
(* Claims about the step range *)

\* C10: for every (start, end) and every pattern of failures, the steps run
\* in ascending order, step k runs only if start <= k <= end and every step j
\* with start <= j < k completed in this run, a step writes its artifact only
\* after its computation succeeded, and after a step fails no later step runs
\* or writes.
C10_StepGatingAndHalt ==
    /\ \A k \in 1..Len(ran) :
           /\ ran[k] \in 0..LastStep
           /\ start <= ran[k] /\ ran[k] <= end
           /\ \A j \in 1..(k - 1) : ran[j] < ran[k]
           /\ \A j \in 0..(ran[k] - 1) : start <= j => j \in written
    /\ written \subseteq computed
    /\ written \cap failed = {}
    /\ \A f \in failed :
           /\ \A k \in 1..Len(ran) : ran[k] <= f
           /\ \A w \in written : w < f
           /\ phase = "exit"

\* with the default range 0..3, step 2 raised after steps 0 and 1 had written
C10_Witness ==
    /\ start = 0
    /\ end = 3
    /\ failed = {2}
    /\ written = {0, 1}
    /\ ran = <<0, 1, 2>>
    /\ phase = "exit"

-----------------------------------------------------------------------------
(* Specifications *)

InitSegmenter ==
    /\ SegInit
    /\ ResIdle
    /\ AsgIdle
    /\ ValIdle
    /\ MainIdle

SpecSegmenter == InitSegmenter /\ [][SegNext]_vars

InitResolver ==
    /\ SegIdle
    /\ ResInit
    /\ AsgIdle
    /\ ValIdle
    /\ MainIdle

SpecResolver == InitResolver /\ [][ResNext]_vars

InitAssigner ==
    /\ SegIdle
    /\ ResIdle
    /\ AsgInit
    /\ ValIdle
    /\ MainIdle

SpecAssigner == InitAssigner /\ [][AsgNext]_vars

InitValidator ==
    /\ SegIdle
    /\ ResIdle
    /\ AsgIdle
    /\ ValInit
    /\ MainIdle

SpecValidator == InitValidator /\ [][ValNext]_vars

Init ==
    /\ SegIdle
    /\ ResIdle
    /\ AsgIdle
    /\ ValIdle
    /\ MainInit

Spec == Init /\ [][Next]_vars

====
